---- MODULE Spec2Model ----
(***************************************************************************)
(* A model of the compound cache (python/compound_cacher.py) and of the    *)
(* Compound value object (python/compound.py) of component-contribution.   *)
(*                                                                         *)
(* Text that the code inspects character by character (chemical formulas,  *)
(* element symbols, compound identifiers) is a sequence of one-character   *)
(* strings, ordered as Python orders str values (by code point).           *)
(* Structure notations (InChI, SMILES) are opaque strings; Python's None   *)
(* is the value None.  pKa values are integers (the code only compares     *)
(* them with 0, 7 and 14, sorts them and adds them up).                    *)
(***************************************************************************)
EXTENDS Integers, Sequences, FiniteSets, TLC

VARIABLES
    phase,          \* position in CompoundCacher.__init__ / the object's life
    store,          \* the cache file: whether it exists, and the JSON records in it
    compound_dict,  \* CompoundCacher.compound_dict: compound_id -> Compound
    compound_ids,   \* CompoundCacher.compound_ids
    need_to_update_cache_file,  \* CompoundCacher.need_to_update_cache_file
    derivations,    \* per cid: Compounds computed for it so far (observer)
    first_got,      \* per cid: what the first successful lookup returned (observer)
    last,           \* the last call made on the cache: its inputs and what it returned (observer)
    call            \* the last call made on Compound and what it returned (observer)

vars == <<phase, store, compound_dict, compound_ids,
          need_to_update_cache_file, derivations, first_got, last, call>>

cacheVars == <<phase, store, compound_dict, compound_ids,
               need_to_update_cache_file, derivations, first_got, last>>

None == "None"

-----------------------------------------------------------------------------
(* Characters and Python's ordering of strings *)

DigitChars == <<"0", "1", "2", "3", "4", "5", "6", "7", "8", "9">>
UpperChars == <<"A", "B", "C", "D", "E", "F", "G", "H", "I", "J", "K", "L", "M",
                "N", "O", "P", "Q", "R", "S", "T", "U", "V", "W", "X", "Y", "Z">>
LowerChars == <<"a", "b", "c", "d", "e", "f", "g", "h", "i", "j", "k", "l", "m",
                "n", "o", "p", "q", "r", "s", "t", "u", "v", "w", "x", "y", "z">>

Range(s) == {s[i] : i \in DOMAIN s}
IndexIn(c, s) == CHOOSE i \in DOMAIN s : s[i] = c

IsDigit(c) == c \in Range(DigitChars)
IsUpper(c) == c \in Range(UpperChars)
IsLower(c) == c \in Range(LowerChars)

\* the code point of a character
Ord(c) ==
    IF IsDigit(c) THEN 47 + IndexIn(c, DigitChars)
    ELSE IF IsUpper(c) THEN 64 + IndexIn(c, UpperChars)
    ELSE IF IsLower(c) THEN 96 + IndexIn(c, LowerChars)
    ELSE IF c = "+" THEN 43
    ELSE IF c = "-" THEN 45
    ELSE IF c = "." THEN 46
    ELSE 95

\* a < b for two Python strings
RECURSIVE StrLess(_, _)
StrLess(a, b) ==
    IF b = <<>> THEN FALSE
    ELSE IF a = <<>> THEN TRUE
    ELSE IF Ord(Head(a)) # Ord(Head(b)) THEN Ord(Head(a)) < Ord(Head(b))
    ELSE StrLess(Tail(a), Tail(b))

\* int(s) for a string of decimal digits
RECURSIVE IntOf(_)
IntOf(s) ==
    IF s = <<>> THEN 0
    ELSE 10 * IntOf(SubSeq(s, 1, Len(s) - 1)) + (IndexIn(s[Len(s)], DigitChars) - 1)

\* '%d' % n for n >= 0
RECURSIVE DecimalDigits(_)
DecimalDigits(n) ==
    IF n < 10 THEN <<DigitChars[n + 1]>>
    ELSE DecimalDigits(n \div 10) \o <<DigitChars[(n % 10) + 1]>>

RECURSIVE ZeroPad(_, _)
ZeroPad(s, width) == IF Len(s) >= width THEN s ELSE ZeroPad(<<"0">> \o s, width)

\* 'C%05d' % cid
CompoundId(cid) == <<"C">> \o ZeroPad(DecimalDigits(cid), 5)

-----------------------------------------------------------------------------
(* Compound.get_atom_bag_and_charge_from_inchi: the formula parser *)

\* formula.split('.')
RECURSIVE SplitDot(_)
SplitDot(s) ==
    IF \A i \in DOMAIN s : s[i] # "." THEN <<s>>
    ELSE LET k == CHOOSE i \in DOMAIN s : s[i] = "." /\ \A j \in 1..(i - 1) : s[j] # "."
         IN  <<SubSeq(s, 1, k - 1)>> \o SplitDot(SubSeq(s, k + 1, Len(s)))

DigitClass == Range(DigitChars)
LowerClass == Range(LowerChars)
WordClass == Range(DigitChars) \cup Range(UpperChars) \cup Range(LowerChars) \cup {"_"}

\* the length of the longest prefix of s made of characters of the class
RECURSIVE PrefixLen(_, _)
PrefixLen(s, class) ==
    IF s = <<>> \/ Head(s) \notin class THEN 0 ELSE 1 + PrefixLen(Tail(s), class)

\* the one match of '^(\d+)?(\w+)' in part, or none: n characters of part can
\* stand for \d+ and m for the whole match
LeadingMatchOf(part, n, m) ==
    IF m = 0 THEN [matched |-> FALSE, times |-> 1, mol |-> <<>>]
    ELSE IF n = 0 THEN [matched |-> TRUE, times |-> 1, mol |-> SubSeq(part, 1, m)]
    ELSE IF m > n
        THEN [matched |-> TRUE, times |-> IntOf(SubSeq(part, 1, n)),
              mol |-> SubSeq(part, n + 1, m)]
    \* only digits: \d+ gives one back to \w+, or the group stays empty
    ELSE IF n >= 2
        THEN [matched |-> TRUE, times |-> IntOf(SubSeq(part, 1, n - 1)),
              mol |-> SubSeq(part, n, n)]
    \* one digit and no word character after it: the digit is the \w+
    ELSE [matched |-> TRUE, times |-> 1, mol |-> SubSeq(part, 1, m)]

\* re.findall('^(\d+)?(\w+)', part): no match, or the one match (times, mol_formula)
LeadingMatch(part) ==
    LeadingMatchOf(part, PrefixLen(part, DigitClass), PrefixLen(part, WordClass))

BagAdd(bag, atom, n) ==
    IF atom \in DOMAIN bag THEN [bag EXCEPT ![atom] = @ + n] ELSE bag @@ (atom :> n)

RECURSIVE AddAtoms(_, _, _)

\* atom_bag[atom] = atom_bag.get(atom, 0) + count * times, count being the nd
\* digits that follow the atom, or 1; then the matches in what follows them
AddCounted(bag, atom, rest, nd, times) ==
    AddAtoms(BagAdd(bag, atom, (IF nd = 0 THEN 1 ELSE IntOf(SubSeq(rest, 1, nd))) * times),
             SubSeq(rest, nd + 1, Len(rest)), times)

\* the match ([A-Z][a-z]*)([0-9]*) at the head of mol, nl lower-case letters
\* following the capital
AddAtom(bag, mol, nl, times) ==
    AddCounted(bag, SubSeq(mol, 1, 1 + nl), SubSeq(mol, 2 + nl, Len(mol)),
               PrefixLen(SubSeq(mol, 2 + nl, Len(mol)), DigitClass), times)

\* for atom, count in re.findall("([A-Z][a-z]*)([0-9]*)", mol_formula): add to the bag
AddAtoms(bag, mol, times) ==
    IF mol = <<>> THEN bag
    ELSE IF ~IsUpper(Head(mol)) THEN AddAtoms(bag, Tail(mol), times)
    ELSE AddAtom(bag, mol, PrefixLen(Tail(mol), LowerClass), times)

RECURSIVE AddParts(_, _)

AddMatch(bag, lm, parts) ==
    AddParts(IF lm.matched THEN AddAtoms(bag, lm.mol, lm.times) ELSE bag, parts)

\* for mol_formula_times in formula.split('.')
AddParts(bag, parts) ==
    IF parts = <<>> THEN bag ELSE AddMatch(bag, LeadingMatch(Head(parts)), Tail(parts))

ParseFormula(formula) == AddParts(<<>>, SplitDot(formula))

-----------------------------------------------------------------------------
(* The external collaborators, as the responses they give on the            *)
(* structures of this model                                                 *)

AcOH  == "InChI=AcOH"     \* acetic acid
AcO   == "InChI=AcO-"     \* acetate
Gly   == "InChI=Gly"      \* glycine, zwitterion
Pi    == "InChI=H3PO4"    \* phosphoric acid
HPO4  == "InChI=HPO4-2"   \* hydrogen phosphate
Hplus == "InChI=H+"       \* the proton
CaAc2 == "InChI=CaAc2"    \* calcium acetate
Bad   == "InChI=bad"      \* a structure ChemAxon cannot process
Odd   == "InChI=odd"      \* a structure whose major microspecies openbabel cannot convert

Inchis == {AcOH, AcO, Gly, Pi, HPO4, Hplus, CaAc2, Bad, Odd}

SmilesAcO  == "CC([O-])=O"
SmilesGly  == "[NH3+]CC([O-])=O"
SmilesHPO4 == "OP([O-])([O-])=O"
SmilesOdd  == "?"
Smiles == {SmilesAcO, SmilesGly, SmilesHPO4, SmilesOdd}

\* chemaxon.GetFormulaAndCharge(inchi): (formula, formal_charge), or it raises
GetFormulaAndCharge(inchi) ==
    LET answer(f, z) == [raises |-> FALSE, formula |-> f, charge |-> z]
    IN  CASE inchi = AcOH  -> answer(<<"C", "2", "H", "4", "O", "2">>, 0)
          [] inchi = AcO   -> answer(<<"C", "2", "H", "3", "O", "2">>, -1)
          [] inchi = Gly   -> answer(<<"C", "2", "H", "5", "N", "O", "2">>, 0)
          [] inchi = Pi    -> answer(<<"H", "3", "O", "4", "P">>, 0)
          [] inchi = HPO4  -> answer(<<"H", "O", "4", "P">>, -2)
          [] inchi = Hplus -> answer(<<"H">>, 1)
          [] inchi = CaAc2 -> answer(<<"2", "C", "2", "H", "3", "O", "2", ".", "C", "a">>, 0)
          [] OTHER         -> [raises |-> TRUE, formula |-> <<>>, charge |-> 0]

\* openbabel, in Compound.smiles2inchi: the InChI of a SMILES string, or None
smiles2inchi(smiles) ==
    CASE smiles = SmilesAcO  -> AcO
      [] smiles = SmilesGly  -> Gly
      [] smiles = SmilesHPO4 -> HPO4
      [] OTHER               -> None

\* openbabel.OBElementTable.GetAtomicNum(symbol): 0 for what is no element
GetAtomicNum(elem) ==
    CASE elem = <<"H">>      -> 1
      [] elem = <<"C">>      -> 6
      [] elem = <<"N">>      -> 7
      [] elem = <<"O">>      -> 8
      [] elem = <<"P">>      -> 15
      [] elem = <<"C", "a">> -> 20
      [] OTHER               -> 0

PredictionFails == [fails |-> TRUE, pKas |-> <<>>, major_ms |-> SmilesOdd]
Predicts(pKas, major_ms) == [fails |-> FALSE, pKas |-> pKas, major_ms |-> major_ms]

\* chemaxon.GetDissociationConstants(molstring): (pKas, major_ms), or it raises
\* ChemAxonError
GetDissociationConstants(molstring) ==
    CASE molstring = AcOH -> Predicts(<<5, 16>>, SmilesAcO)
      [] molstring = Gly  -> Predicts(<<2, 10>>, SmilesGly)
      [] molstring = Pi   -> Predicts(<<0, 7, 14, 12, 2>>, SmilesHPO4)
      [] molstring = Odd  -> Predicts(<<4>>, SmilesOdd)
      [] OTHER            -> PredictionFails

-----------------------------------------------------------------------------
(* Compound (compound.py) *)

MIN_PH == 0
MAX_PH == 14

Ok(v) == [raises |-> FALSE, error |-> "", value |-> v]
Raise(e) == [raises |-> TRUE, error |-> e, value |-> <<>>]

Compound(database, compound_id, inchi, pKas, majorMSpH7, nHs, zs) ==
    [database |-> database, compound_id |-> compound_id, inchi |-> inchi,
     pKas |-> pKas, majorMSpH7 |-> majorMSpH7, nHs |-> nHs, zs |-> zs]

to_json_dict(c) ==
    [database |-> c.database, id |-> c.compound_id, inchi |-> c.inchi,
     pKas |-> c.pKas, majorMSpH7 |-> c.majorMSpH7, nHs |-> c.nHs, zs |-> c.zs]

from_json_dict(d) ==
    Compound(d.database, d.id, d.inchi, d.pKas, d.majorMSpH7, d.nHs, d.zs)

\* the atom bag and the charge of what GetFormulaAndCharge answered
Described(fc) ==
    IF fc.raises THEN Raise("ChemAxonError")
    ELSE Ok([atom_bag |-> ParseFormula(fc.formula), charge |-> fc.charge])

\* Compound.get_atom_bag_and_charge_from_inchi(inchi)
AtomBagAndCharge(inchi) == Described(GetFormulaAndCharge(inchi))

\* the same, computed once for each structure of the model
AtomBagAndChargeOf == [inchi \in Inchis \cup {None} |-> AtomBagAndCharge(inchi)]
get_atom_bag_and_charge_from_inchi(inchi) == AtomBagAndChargeOf[inchi]

\* [pka for pka in pKas if pka > MIN_PH and pka < MAX_PH]
InRange(pKas) == SelectSeq(pKas, LAMBDA pka : pka > MIN_PH /\ pka < MAX_PH)

\* sorted(pKas, reverse=True)
RECURSIVE SortedDescending(_)
SortedDescending(s) ==
    IF s = <<>> THEN <<>>
    ELSE LET k == CHOOSE i \in DOMAIN s : \A j \in DOMAIN s : s[j] <= s[i]
         IN  <<s[k]>> \o SortedDescending(SubSeq(s, 1, k - 1) \o SubSeq(s, k + 1, Len(s)))

Ladder(pKas, majorMSpH7, nHs, zs) ==
    [pKas |-> pKas, majorMSpH7 |-> majorMSpH7, nHs |-> nHs, zs |-> zs]

\* the end of get_species_pka: the species around the major microspecies
SpeciesOf(pKas, majorMSpH7, major_ms_nH, major_ms_charge) ==
    Ok(Ladder(pKas, majorMSpH7,
              [i \in 1..(Len(pKas) + 1) |-> ((i - 1) - majorMSpH7) + major_ms_nH],
              [i \in 1..(Len(pKas) + 1) |-> ((i - 1) - majorMSpH7) + major_ms_charge]))

\* get_species_pka from the call of get_atom_bag_and_charge_from_inchi on
LadderOf(pKas, described) ==
    IF described.raises THEN described
    ELSE LET atom_bag == described.value.atom_bag
         IN  SpeciesOf(pKas,
                       IF pKas = <<>> THEN 0 ELSE Len(SelectSeq(pKas, LAMBDA pka : pka > 7)),
                       IF <<"H">> \in DOMAIN atom_bag THEN atom_bag[<<"H">>] ELSE 0,
                       described.value.charge)

\* get_species_pka without the except clause: ChemAxonError leaves the method
SpeciesPka_propagates(molstring, moltype, prediction) ==
    IF molstring = None THEN Ok(Ladder(<<>>, -1, <<>>, <<>>))
    ELSE IF prediction.fails THEN Raise("ChemAxonError")
    ELSE LadderOf(SortedDescending(InRange(prediction.pKas)),
                  get_atom_bag_and_charge_from_inchi(smiles2inchi(prediction.major_ms)))

\* Compound.get_species_pka(molstring, moltype), given what
\* GetDissociationConstants answers
SpeciesPka(molstring, moltype, prediction) ==
    IF molstring = None THEN Ok(Ladder(<<>>, -1, <<>>, <<>>))
    ELSE IF prediction.fails /\ moltype \notin {"inchi", "smiles"} THEN Raise("ValueError")
    ELSE LadderOf(IF prediction.fails THEN <<>>
                  ELSE SortedDescending(InRange(prediction.pKas)),
                  get_atom_bag_and_charge_from_inchi(
                      IF ~prediction.fails THEN smiles2inchi(prediction.major_ms)
                      ELSE IF moltype = "inchi" THEN molstring
                      ELSE smiles2inchi(molstring)))

\* Compound.get_species_pka(inchi), computed once for each structure of the model
SpeciesPkaOf ==
    [inchi \in Inchis \cup {None} |->
        SpeciesPka(inchi, "inchi", GetDissociationConstants(inchi))]

get_species_pka(molstring, moltype) ==
    IF moltype = "inchi" THEN SpeciesPkaOf[molstring]
    ELSE SpeciesPka(molstring, moltype, GetDissociationConstants(molstring))

\* what Compound.get_inchi(cid) can do: raise (urllib), or return an InChI or None
NetworkDown == [raises |-> TRUE, inchi |-> None]
Resolved(inchi) == [raises |-> FALSE, inchi |-> inchi]
\* the place of an outcome where get_inchi is not called
NotAsked == [raises |-> TRUE, inchi |-> "not asked"]

\* the end of from_kegg: the Compound of the ladder, or the error that ended it
Made(cid, inchi, ladder) ==
    IF ladder.raises THEN ladder
    ELSE Ok(Compound("KEGG", CompoundId(cid), inchi, ladder.value.pKas,
                     ladder.value.majorMSpH7, ladder.value.nHs, ladder.value.zs))

\* Compound.from_kegg(cid), given what get_inchi(cid) does
from_kegg(cid, resolved) ==
    IF resolved.raises THEN Raise("IOError")
    ELSE Made(cid, resolved.inchi,
              IF cid \in {80} \/ resolved.inchi = None
              THEN Ok(Ladder(<<>>, 0, <<0>>, <<0>>))
              ELSE get_species_pka(resolved.inchi, "inchi"))

RECURSIVE n_protons(_)
n_protons(atom_bag) ==
    IF DOMAIN atom_bag = {} THEN 0
    ELSE LET elem == CHOOSE e \in DOMAIN atom_bag : TRUE
         IN  atom_bag[elem] * GetAtomicNum(elem)
             + n_protons([e \in DOMAIN atom_bag \ {elem} |-> atom_bag[e]])

Electron == <<"e", "-">>

\* atom_bag['e-'] = n_protons - charge
WithElectrons(described) ==
    IF described.raises THEN described
    ELSE LET atom_bag == described.value.atom_bag
         IN  Ok(<<[e \in DOMAIN atom_bag \cup {Electron} |->
                     IF e = Electron THEN n_protons(atom_bag) - described.value.charge
                     ELSE atom_bag[e]]>>)

\* Compound.get_atom_bag_with_electrons: value <<>> stands for None, <<bag>> for a bag
get_atom_bag_with_electrons(c) ==
    IF c.inchi = None THEN Ok(<<>>)
    ELSE WithElectrons(get_atom_bag_and_charge_from_inchi(c.inchi))

RECURSIVE SumSeq(_)
SumSeq(s) == IF s = <<>> THEN 0 ELSE Head(s) + SumSeq(Tail(s))

Min(a, b) == IF a < b THEN a ELSE b

\* Compound._transform: the value is a log-sum-exp over the species, or the
\* constant 0; numpy.vstack raises unless dG0s, nHs and zs have one length
core(c) ==
    IF c.inchi = None THEN Ok("zero")
    ELSE IF Len(c.nHs) # Len(c.pKas) + 1 \/ Len(c.zs) # Len(c.pKas) + 1
        THEN Raise("ValueError: all the input array dimensions must match")
    ELSE Ok("logsumexp")

\* sum(self.pKas[:MS_ind]), which R * T * ln(10) multiplies, with what
\* _transform adds to it
Transformed(c, MS_ind, rest) ==
    IF rest.raises THEN rest
    ELSE Ok([MS_ind |-> MS_ind,
             pKa_sum |-> SumSeq(SubSeq(c.pKas, 1, Min(MS_ind, Len(c.pKas)))),
             core |-> rest.value])

\* transform_neutral referring to the major microspecies, as transform does
transform_neutral_as_transform(c) == Transformed(c, c.majorMSpH7, core(c))

\* Compound.transform_neutral(pH, I, T): MS_ind = self.zs.index(0), or ValueError
transform_neutral(c) ==
    IF \A i \in DOMAIN c.zs : c.zs[i] # 0
    THEN Raise("ValueError: no microspecies with 0 charge")
    ELSE Transformed(c,
                     (CHOOSE i \in DOMAIN c.zs :
                          c.zs[i] = 0 /\ \A j \in 1..(i - 1) : c.zs[j] # 0) - 1,
                     core(c))

-----------------------------------------------------------------------------
(* CompoundCacher (compound_cacher.py) *)

Put(dict, key, value) ==
    [k \in DOMAIN dict \cup {key} |-> IF k = key THEN value ELSE dict[k]]

Values(dict) == {dict[k] : k \in DOMAIN dict}

\* CompoundCacher.load: the loop over the records of the file
RECURSIVE load(_, _)
load(dict, records) ==
    IF records = <<>> THEN dict
    ELSE load(Put(dict, Head(records).id, from_json_dict(Head(records))), Tail(records))

\* sorted(self.compound_dict.values(), key=lambda d:d.compound_id)
RECURSIVE SortedByCompoundId(_)
SortedByCompoundId(compounds) ==
    IF compounds = {} THEN <<>>
    ELSE LET first == CHOOSE c \in compounds :
                          \A d \in compounds : ~StrLess(d.compound_id, c.compound_id)
         IN  <<first>> \o SortedByCompoundId(compounds \ {first})

\* json.dump(data, fp, cls=CompoundEncoder, ...)
Written(data) ==
    [exists |-> TRUE, records |-> [i \in DOMAIN data |-> to_json_dict(data[i])]]

Reversed(data) == [i \in DOMAIN data |-> data[Len(data) + 1 - i]]

\* dump without the sort: the records in descending order of compound_id
dump_unsorted(dict) == Written(Reversed(SortedByCompoundId(Values(dict))))

\* CompoundCacher.dump: what json.dump writes
dump(dict) == Written(SortedByCompoundId(Values(dict)))

Counted(derived, cid) == [derived EXCEPT ![cid] = @ + 1]

\* self.compound_dict[comp.compound_id] = comp; self.need_to_update_cache_file = True
Added(st, cid, comp) ==
    [st EXCEPT !.dict = Put(st.dict, comp.compound_id, comp),
               !.dirty = TRUE,
               !.derived = Counted(st.derived, cid)]

\* a row for which get_species_pka(inchi) is called: the exception, or the
\* Compound added or replaced
Recalculated(st, cid, compound_id, inchi, ladder) ==
    IF ladder.raises THEN [st EXCEPT !.raises = TRUE, !.error = ladder.error]
    ELSE Added(st, cid, Compound("KEGG", compound_id, inchi,
                                 ladder.value.pKas, ladder.value.majorMSpH7,
                                 ladder.value.nHs, ladder.value.zs))

\* one row of get_kegg_additions without the comparison of the InChI
RowAdded_only_absent(st, cid, compound_id, inchi) ==
    IF compound_id \notin DOMAIN st.dict
    THEN Recalculated(st, cid, compound_id, inchi, get_species_pka(inchi, "inchi"))
    ELSE st

\* get_kegg_additions without the comparison of the InChI: a row only adds a
\* compound that is not cached
RECURSIVE get_kegg_additions_only_absent(_, _)
get_kegg_additions_only_absent(st, rows) ==
    IF rows = <<>> \/ st.raises THEN st
    ELSE get_kegg_additions_only_absent(
             RowAdded_only_absent(st, IntOf(Head(rows).cid),
                                  CompoundId(IntOf(Head(rows).cid)), Head(rows).inchi),
             Tail(rows))

\* one row of get_kegg_additions: cid = int(row['cid']), compound_id = 'C%05d' % cid,
\* inchi = row['inchi']
RowAdded(st, cid, compound_id, inchi) ==
    IF compound_id \notin DOMAIN st.dict \/ inchi # st.dict[compound_id].inchi
    THEN Recalculated(st, cid, compound_id, inchi, get_species_pka(inchi, "inchi"))
    ELSE st

\* CompoundCacher.get_kegg_additions: the loop over the rows; st is the cache
\* so far, and an exception of get_species_pka ends the loop
RECURSIVE get_kegg_additions(_, _)
get_kegg_additions(st, rows) ==
    IF rows = <<>> \/ st.raises THEN st
    ELSE get_kegg_additions(
             RowAdded(st, IntOf(Head(rows).cid),
                      CompoundId(IntOf(Head(rows).cid)), Head(rows).inchi),
             Tail(rows))

\* the calls from_kegg(cid) makes on the collaborators: get_inchi, and, unless the
\* ladder is the fixed one, GetDissociationConstants and GetFormulaAndCharge
CallsOfFromKegg(cid, resolved) ==
    IF resolved.raises \/ cid \in {80} \/ resolved.inchi = None THEN 1 ELSE 3

\* the else branch of get_kegg_compound after Compound.from_kegg(cid): its
\* exception, or the Compound cached and returned
Derived(st, cid, made, calls, dirty) ==
    IF made.raises
    THEN [st EXCEPT !.raises = TRUE, !.error = made.error, !.calls = calls]
    ELSE [st EXCEPT !.dict = Put(st.dict, made.value.compound_id, made.value),
                    !.dirty = dirty,
                    !.derived = Counted(st.derived, cid),
                    !.calls = calls,
                    !.ret = <<made.value>>]

\* the same, a Compound without structure being cached when from_kegg raises
Derived_caches_failure(st, cid, made, calls) ==
    LET comp == IF made.raises
                THEN Compound("KEGG", CompoundId(cid), None, <<>>, 0, <<0>>, <<0>>)
                ELSE made.value
    IN  [st EXCEPT !.dict = Put(st.dict, comp.compound_id, comp),
                   !.dirty = TRUE,
                   !.raises = made.raises,
                   !.error = made.error,
                   !.calls = calls,
                   !.derived = IF made.raises THEN @ ELSE Counted(@, cid),
                   !.ret = IF made.raises THEN <<>> ELSE <<comp>>]

\* get_kegg_compound without the lookup: every call computes the Compound
get_kegg_compound_always_derives(st, cid, resolved) ==
    Derived(st, cid, from_kegg(cid, resolved),
            st.calls + CallsOfFromKegg(cid, resolved), TRUE)

\* get_kegg_compound caching the fixed ladder when from_kegg raises
get_kegg_compound_caches_failure(st, cid, resolved) ==
    IF CompoundId(cid) \in DOMAIN st.dict
    THEN [st EXCEPT !.ret = <<st.dict[CompoundId(cid)]>>]
    ELSE Derived_caches_failure(st, cid, from_kegg(cid, resolved),
                                st.calls + CallsOfFromKegg(cid, resolved))

\* get_kegg_compound without need_to_update_cache_file = True
get_kegg_compound_not_dirty(st, cid, resolved) ==
    IF CompoundId(cid) \in DOMAIN st.dict
    THEN [st EXCEPT !.ret = <<st.dict[CompoundId(cid)]>>]
    ELSE Derived(st, cid, from_kegg(cid, resolved),
                 st.calls + CallsOfFromKegg(cid, resolved), st.dirty)

\* CompoundCacher.get_kegg_compound(cid), given what get_inchi(cid) would do
get_kegg_compound(st, cid, resolved) ==
    IF CompoundId(cid) \in DOMAIN st.dict
    THEN [st EXCEPT !.ret = <<st.dict[CompoundId(cid)]>>]
    ELSE Derived(st, cid, from_kegg(cid, resolved),
                 st.calls + CallsOfFromKegg(cid, resolved), TRUE)

\* atom_bag_list.append(atom_bag), or the exception of get_atom_bag_with_electrons
WithAtomBag(got, atom_bag) ==
    IF atom_bag.raises
    THEN [got EXCEPT !.raises = TRUE, !.error = atom_bag.error, !.ret = <<>>]
    ELSE [got EXCEPT !.atom_bag_list = Append(@, atom_bag.value), !.ret = <<>>]

\* one pass of the first loop of get_kegg_ematrix, after get_kegg_compound(cid)
Gathered(got) ==
    IF got.raises THEN got
    ELSE WithAtomBag(got, get_atom_bag_with_electrons(got.ret[1]))

\* CompoundCacher.get_kegg_ematrix: the first loop, over cids
RECURSIVE GatherAtomBags(_, _, _)
GatherAtomBags(st, cids, resolved) ==
    IF cids = <<>> \/ st.raises THEN st
    ELSE GatherAtomBags(Gathered(get_kegg_compound(st, Head(cids), Head(resolved))),
                        Tail(cids), Tail(resolved))

\* sorted(elements) for a set of strings
RECURSIVE SortedStrings(_)
SortedStrings(strings) ==
    IF strings = {} THEN <<>>
    ELSE LET first == CHOOSE a \in strings : \A b \in strings : ~StrLess(b, a)
         IN  <<first>> \o SortedStrings(strings \ {first})

NaN == [nan |-> TRUE, n |-> 0]
Number(n) == [nan |-> FALSE, n |-> n]

\* elements = elements.union(atom_bag.keys()), over the atom bags that are not None
ElementsOf(atom_bag_list) ==
    UNION {DOMAIN atom_bag_list[i][1] :
              i \in {j \in DOMAIN atom_bag_list : atom_bag_list[j] # <<>>}}

\* the second loop of get_kegg_ematrix: the matrix over the sorted elements
MatrixOf(atom_bag_list, elements) ==
    [elements |-> elements,
     matrix |-> [i \in DOMAIN atom_bag_list |->
                   [j \in DOMAIN elements |->
                      IF atom_bag_list[i] = <<>> THEN NaN
                      ELSE IF elements[j] \in DOMAIN atom_bag_list[i][1]
                          THEN Number(atom_bag_list[i][1][elements[j]])
                      ELSE Number(0)]]]

\* the matrix without elements.discard('H')
Ematrix_keeps_H(atom_bag_list) ==
    MatrixOf(atom_bag_list, SortedStrings(ElementsOf(atom_bag_list)))

\* CompoundCacher.get_kegg_ematrix: the element list and the matrix of a list of
\* atom bags (<<>> for None)
Ematrix(atom_bag_list) ==
    MatrixOf(atom_bag_list, SortedStrings(ElementsOf(atom_bag_list) \ {<<"H">>}))

-----------------------------------------------------------------------------
(* The inputs of the model *)

MaxAdditions == 2   \* rows of kegg_additions.tsv
MaxRequest == 2     \* cids in one get_kegg_ematrix call
MaxPkas == 2        \* pKas GetDissociationConstants returns in one call

Cids == {33, 80}
CidTexts == {<<"3", "3">>, <<"8", "0">>}
AdditionRows == [cid : CidTexts, inchi : {AcOH, Gly, Bad, None}]
AdditionLists == UNION {[1..n -> AdditionRows] : n \in 0..MaxAdditions}

ResolverOutcomes == {NetworkDown} \cup {Resolved(i) : i \in {AcOH, Bad, None}}
Requests == UNION {[1..n -> Cids] : n \in 0..MaxRequest}

\* records as dump writes them
RecordOf(cid, inchi) == to_json_dict(from_kegg(cid, Resolved(inchi)).value)
\* records damaged outside the program
WrongLength == [RecordOf(80, Hplus) EXCEPT !.nHs = <<0, 1>>]
WrongIndex == [RecordOf(33, AcOH) EXCEPT !.majorMSpH7 = 5]

NoFile == [exists |-> FALSE, records |-> <<>>]
File(records) == [exists |-> TRUE, records |-> records]
Stores ==
    {NoFile, File(<<>>),
     File(<<RecordOf(33, AcOH)>>),
     File(<<RecordOf(33, Gly), RecordOf(80, Hplus)>>),
     File(<<RecordOf(80, Hplus), RecordOf(33, AcOH)>>),
     File(<<WrongLength>>),
     File(<<WrongIndex>>)}

PkaValues == {0, 5, 7, 10, 14}
Predictions ==
    {PredictionFails} \cup
    {Predicts(pKas, major_ms) :
        pKas \in UNION {[1..n -> PkaValues] : n \in 0..MaxPkas}, major_ms \in Smiles}
Molstrings == [molstring : Inchis \cup {None}, moltype : {"inchi"}]
              \cup [molstring : Smiles, moltype : {"smiles"}]
              \cup [molstring : {AcOH, Bad}, moltype : {"mol"}]

-----------------------------------------------------------------------------
(* The cache: CompoundCacher.__init__ and the calls on the instance *)

St(dict, dirty, derived) ==
    [dict |-> dict, dirty |-> dirty, derived |-> derived, raises |-> FALSE,
     error |-> "", calls |-> 0, ret |-> <<>>, atom_bag_list |-> <<>>]

\* a call on the cache: cid, cids or rows are its input, the rest is its outcome
Called(op, st) ==
    [op |-> op, cid |-> 0, cids |-> <<>>, rows |-> <<>>,
     raises |-> st.raises, error |-> st.error, calls |-> st.calls, ret |-> st.ret,
     elements |-> <<>>, matrix |-> <<>>]

Returned == St(<<>>, FALSE, <<>>)
NothingCalled == Called("none", Returned)

NoCompoundCall ==
    [fn |-> "none", cid |-> 0, molstring |-> None, moltype |-> "inchi",
     prediction |-> PredictionFails, comp |-> <<>>, result |-> Ok(<<>>)]

Init ==
    /\ phase = "new"
    /\ store \in Stores
    /\ compound_dict = <<>>
    /\ compound_ids = <<>>
    /\ need_to_update_cache_file = FALSE
    /\ derivations = [cid \in Cids |-> 0]
    /\ first_got = [cid \in Cids |-> <<>>]
    /\ last = NothingCalled
    /\ call = NoCompoundCall

\* __init__: self.load()
Load ==
    /\ phase = "new"
    /\ phase' = "loaded"
    /\ compound_dict' = IF store.exists THEN load(<<>>, store.records) ELSE <<>>
    /\ compound_ids' = IF store.exists
                       THEN [i \in DOMAIN store.records |-> store.records[i].id]
                       ELSE <<>>
    /\ last' = Called("load", Returned)
    /\ UNCHANGED <<store, need_to_update_cache_file, derivations,
                   first_got, call>>

\* __init__: self.get_kegg_additions(), on the rows the file holds; an exception
\* ends __init__
GetKeggAdditions ==
    /\ phase = "loaded"
    /\ \E rows \in AdditionLists :
         \E st \in {get_kegg_additions(
                     St(compound_dict, need_to_update_cache_file, derivations),
                     rows)} :
           /\ phase' = IF st.raises THEN "failed" ELSE "reconciled"
           /\ compound_dict' = st.dict
           /\ need_to_update_cache_file' = st.dirty
           /\ derivations' = st.derived
           /\ last' = [Called("get_kegg_additions", st) EXCEPT !.rows = rows]
    /\ UNCHANGED <<store, compound_ids, first_got, call>>

\* self.dump(): the last step of __init__, and any later call
Dump ==
    /\ phase \in {"reconciled", "ready"}
    /\ phase' = "ready"
    /\ IF need_to_update_cache_file
       THEN /\ store' = dump(compound_dict)
            /\ need_to_update_cache_file' = FALSE
       ELSE UNCHANGED <<store, need_to_update_cache_file>>
    /\ last' = Called("dump", Returned)
    /\ UNCHANGED <<compound_dict, compound_ids, derivations, first_got, call>>

\* whether get_kegg_compound(cids[i]) can reach get_inchi when the cids are looked
\* up in turn: the compound is not cached, and no earlier lookup has cached it
Asked(cids, i) ==
    /\ CompoundId(cids[i]) \notin DOMAIN compound_dict
    /\ \A j \in 1..(i - 1) : cids[j] # cids[i]

FirstGot(got, cid, st) ==
    IF ~st.raises /\ got[cid] = <<>> THEN [got EXCEPT ![cid] = st.ret] ELSE got

GetKeggCompound ==
    /\ phase = "ready"
    /\ \E cid \in Cids :
       \E resolved \in IF Asked(<<cid>>, 1) THEN ResolverOutcomes ELSE {NotAsked} :
         \E st \in {get_kegg_compound(
                       St(compound_dict, need_to_update_cache_file, derivations),
                       cid, resolved)} :
             /\ compound_dict' = st.dict
             /\ need_to_update_cache_file' = st.dirty
             /\ derivations' = st.derived
             /\ first_got' = FirstGot(first_got, cid, st)
             /\ last' = [Called("get_kegg_compound", st) EXCEPT !.cid = cid]
    /\ UNCHANGED <<phase, store, compound_ids, call>>

GetKeggEmatrix ==
    /\ phase = "ready"
    /\ \E cids \in Requests :
         \E kegg \in [{cids[i] : i \in {j \in DOMAIN cids : Asked(cids, j)}}
                          -> ResolverOutcomes] :
           \E st \in {GatherAtomBags(
                         St(compound_dict, need_to_update_cache_file, derivations),
                         cids,
                         [i \in DOMAIN cids |->
                             IF Asked(cids, i) THEN kegg[cids[i]] ELSE NotAsked])} :
            \E em \in {Ematrix(st.atom_bag_list)} :
               /\ compound_dict' = st.dict
               /\ need_to_update_cache_file' = st.dirty
               /\ derivations' = st.derived
               /\ last' = IF st.raises
                          THEN [Called("get_kegg_ematrix", st) EXCEPT !.cids = cids]
                          ELSE [Called("get_kegg_ematrix", st) EXCEPT
                                    !.cids = cids,
                                    !.elements = em.elements, !.matrix = em.matrix]
    /\ UNCHANGED <<phase, store, compound_ids, first_got, call>>

Next == Load \/ GetKeggAdditions \/ Dump \/ GetKeggCompound \/ GetKeggEmatrix

Spec == Init /\ [][Next]_vars

-----------------------------------------------------------------------------
(* Compound alone: its static methods and transform_neutral, called directly *)

InitCompound ==
    /\ phase = "compound"
    /\ store = NoFile
    /\ compound_dict = <<>>
    /\ compound_ids = <<>>
    /\ need_to_update_cache_file = FALSE
    /\ derivations = [cid \in Cids |-> 0]
    /\ first_got = [cid \in Cids |-> <<>>]
    /\ last = NothingCalled
    /\ \E m \in Molstrings, prediction \in Predictions, cid \in Cids :
         call = [NoCompoundCall EXCEPT !.cid = cid, !.molstring = m.molstring,
                                       !.moltype = m.moltype, !.prediction = prediction]

\* Compound.get_species_pka(molstring, moltype); with an InChI, the Compound that
\* get_kegg_additions makes of the result
CallGetSpeciesPka ==
    /\ call.fn = "none"
    /\ \E ladder \in {SpeciesPka(call.molstring, call.moltype, call.prediction)} :
         call' = [call EXCEPT
                    !.fn = "get_species_pka",
                    !.comp = IF ladder.raises \/ call.moltype # "inchi" THEN <<>>
                             ELSE <<Compound("KEGG", CompoundId(call.cid), call.molstring,
                                             ladder.value.pKas, ladder.value.majorMSpH7,
                                             ladder.value.nHs, ladder.value.zs)>>,
                    !.result = ladder]
    /\ UNCHANGED cacheVars

\* Compound.from_kegg(cid), get_inchi(cid) raising or returning the InChI;
\* GetDissociationConstants answers as it does on that InChI
CallFromKegg ==
    /\ call.fn = "none"
    /\ call.moltype = "inchi"
    /\ call.prediction = PredictionFails
    /\ \E resolved \in {NetworkDown, Resolved(call.molstring)} :
         \E made \in {from_kegg(call.cid, resolved)} :
           call' = [call EXCEPT !.fn = "from_kegg",
                                !.prediction = GetDissociationConstants(call.molstring),
                                !.comp = IF made.raises THEN <<>> ELSE <<made.value>>,
                                !.result = made]
    /\ UNCHANGED cacheVars

\* comp.transform_neutral(pH, I, T) on the Compound just made
CallTransformNeutral ==
    /\ call.fn \in {"get_species_pka", "from_kegg"}
    /\ call.comp # <<>>
    /\ call' = [call EXCEPT !.fn = "transform_neutral",
                            !.result = transform_neutral(call.comp[1])]
    /\ UNCHANGED cacheVars

NextCompound == CallGetSpeciesPka \/ CallFromKegg \/ CallTransformNeutral

SpecCompound == InitCompound /\ [][NextCompound]_vars

-----------------------------------------------------------------------------
(* The properties *)

\* the invariants of a Compound, or of a ladder: one more species than pKas, the
\* major microspecies among them, one proton and one charge per step
WellFormed(c) ==
    /\ Len(c.nHs) = Len(c.pKas) + 1
    /\ Len(c.zs) = Len(c.pKas) + 1
    /\ c.majorMSpH7 >= 0
    /\ c.majorMSpH7 <= Len(c.pKas)
    /\ \A i \in DOMAIN c.nHs :
         /\ c.nHs[i] - c.nHs[c.majorMSpH7 + 1] = (i - 1) - c.majorMSpH7
         /\ c.zs[i] - c.zs[c.majorMSpH7 + 1] = (i - 1) - c.majorMSpH7

Records == IF store.exists THEN Range(store.records) ELSE {}

RowId(row) == CompoundId(IntOf(row.cid))
RowsOf(rows, cid) == {i \in DOMAIN rows : IntOf(rows[i].cid) = cid}
IsLastRowOfItsId(rows, i) ==
    \A j \in DOMAIN rows : j > i => RowId(rows[j]) # RowId(rows[i])

\* the Compound get_kegg_additions computes for a row
ComputedFor(row) ==
    LET ladder == get_species_pka(row.inchi, "inchi").value
    IN  Compound("KEGG", RowId(row), row.inchi, ladder.pKas, ladder.majorMSpH7,
                 ladder.nHs, ladder.zs)

(* C1 *)
\* C1 as stated: no identity is ever derived more than once, and a lookup that
\* follows a successful lookup of the same identity makes no external call and
\* returns the same Compound.
C1_AtMostOneDerivation ==
    /\ \A cid \in Cids : derivations[cid] <= 1
    /\ (last.op = "get_kegg_compound" /\ ~last.raises) =>
           last.ret = first_got[last.cid]

\* C1, amended: get_kegg_additions derives an identity at most once per row that
\* names it; after it, a lookup (alone or inside get_kegg_ematrix) derives an
\* identity only when it is not cached and caches it, so at most once; and a
\* lookup that follows a successful lookup of the same identity makes no
\* external call and returns the same Compound.
C1_DerivedOncePerLookup ==
    [][/\ phase = "loaded" =>
            \A cid \in Cids : derivations'[cid] <= Cardinality(RowsOf(last'.rows, cid))
       /\ phase = "reconciled" => derivations' = derivations
       /\ phase = "ready" =>
            \A cid \in Cids :
               \/ derivations'[cid] = derivations[cid]
               \/ /\ derivations'[cid] = derivations[cid] + 1
                  /\ CompoundId(cid) \notin DOMAIN compound_dict
                  /\ CompoundId(cid) \in DOMAIN compound_dict'
       /\ (last'.op = "get_kegg_compound" /\ first_got[last'.cid] # <<>>) =>
            /\ ~last'.raises
            /\ last'.calls = 0
            /\ last'.ret = first_got[last'.cid]
            /\ derivations' = derivations]_vars

\* a lookup served from the cache after the lookup that derived the Compound
C1_Witness ==
    /\ last.op = "get_kegg_compound"
    /\ ~last.raises
    /\ last.calls = 0
    /\ derivations[last.cid] = 1
    /\ need_to_update_cache_file
    /\ first_got[last.cid] = last.ret

(* C2 *)
\* C2 as stated: after get_kegg_additions completes, every row of the list has
\* an entry under its identity with the row's structure.
C2_EveryRowHeld ==
    (last.op = "get_kegg_additions" /\ ~last.raises /\ phase = "reconciled") =>
        \A i \in DOMAIN last.rows :
            /\ RowId(last.rows[i]) \in DOMAIN compound_dict
            /\ compound_dict[RowId(last.rows[i])].inchi = last.rows[i].inchi

\* C2, amended: after get_kegg_additions completes, every identity of the list
\* has an entry with the structure of the last row that names it, computed from
\* that structure unless it is the entry that was there; an entry no row names,
\* or whose structure every row naming it repeats, is untouched; and the flag is
\* set whenever an entry was added or replaced.
C2_LastRowHeld ==
    [][(phase = "loaded" /\ phase' = "reconciled") =>
          /\ \A i \in DOMAIN last'.rows :
               LET row == last'.rows[i]
                   id == RowId(row)
               IN  IsLastRowOfItsId(last'.rows, i) =>
                     /\ id \in DOMAIN compound_dict'
                     /\ compound_dict'[id].inchi = row.inchi
                     /\ \/ compound_dict'[id] = ComputedFor(row)
                        \/ id \in DOMAIN compound_dict /\ compound_dict'[id] = compound_dict[id]
          /\ \A id \in DOMAIN compound_dict :
               (\A i \in DOMAIN last'.rows :
                    RowId(last'.rows[i]) = id => last'.rows[i].inchi = compound_dict[id].inchi)
               => (id \in DOMAIN compound_dict' /\ compound_dict'[id] = compound_dict[id])
          /\ DOMAIN compound_dict' =
                 DOMAIN compound_dict \cup {RowId(last'.rows[i]) : i \in DOMAIN last'.rows}
          /\ (compound_dict' # compound_dict \/ derivations' # derivations)
               => need_to_update_cache_file']_vars

\* a persisted entry replaced by the correction of its structure
C2_Witness ==
    /\ phase = "reconciled"
    /\ last.op = "get_kegg_additions"
    /\ need_to_update_cache_file
    /\ \E i \in DOMAIN last.rows : \E d \in Records :
         /\ d.id = RowId(last.rows[i])
         /\ d.inchi # last.rows[i].inchi
         /\ compound_dict[d.id].inchi = last.rows[i].inchi

(* C3 *)
\* C3: dump changes nothing when the flag is clear; when it is set, it writes
\* the cached Compounds, in ascending order of identity, clears the flag and
\* leaves the mapping alone.
C3_DumpEffect ==
    [][last'.op = "dump" =>
          /\ compound_dict' = compound_dict
          /\ ~need_to_update_cache_file =>
                 (store' = store /\ need_to_update_cache_file' = FALSE)
          /\ need_to_update_cache_file =>
                 /\ need_to_update_cache_file' = FALSE
                 /\ store'.exists
                 /\ Range(store'.records) = {to_json_dict(c) : c \in Values(compound_dict)}
                 /\ Len(store'.records) = Cardinality(DOMAIN compound_dict)
                 /\ \A i, j \in DOMAIN store'.records :
                        i < j => StrLess(store'.records[i].id, store'.records[j].id)]_vars

\* a file of two records that dump wrote
C3_Witness ==
    /\ last.op = "dump"
    /\ store \notin Stores
    /\ Len(store.records) = 2
    /\ ~need_to_update_cache_file

(* C4 *)
\* C4 as stated: a persisted record that breaks the invariants of a Compound is
\* dropped when the cache is loaded, and no lookup returns such a Compound.
C4_CorruptRecordDropped ==
    /\ phase = "loaded" => \A id \in DOMAIN compound_dict : WellFormed(compound_dict[id])
    /\ (last.op = "get_kegg_compound" /\ ~last.raises) => WellFormed(last.ret[1])

(* C5 *)
\* C5: transform_neutral raises the error of the missing neutral species exactly
\* when no entry of zs is 0; otherwise it returns, with MS_ind the index k of the
\* entry that is 0 and the sum of the first k pKas; the Compound and the cache
\* stay as they were.
C5_TransformNeutral ==
    [][call'.fn = "transform_neutral" =>
          LET c == call.comp[1]
              zeros == {i \in DOMAIN c.zs : c.zs[i] = 0}
          IN  /\ call'.comp = call.comp
              /\ UNCHANGED cacheVars
              /\ zeros = {} =>
                     /\ call'.result.raises
                     /\ call'.result.error = "ValueError: no microspecies with 0 charge"
              /\ zeros # {} =>
                     /\ ~call'.result.raises
                     /\ c.zs[call'.result.value.MS_ind + 1] = 0
                     /\ call'.result.value.pKa_sum =
                            SumSeq(SubSeq(c.pKas, 1, call'.result.value.MS_ind))]_vars

\* transform_neutral raising on a ladder that has species, none of them neutral
C5_Witness ==
    /\ call.fn = "transform_neutral"
    /\ call.result.raises
    /\ call.comp[1].zs # <<>>
    /\ \A i \in DOMAIN call.comp[1].zs : call.comp[1].zs[i] # 0

(* C6 *)
\* C6 as stated: every ladder get_species_pka or from_kegg returns has one more
\* species than pKas, the major microspecies among them, and nHs and zs rising by
\* one per index.
C6_LadderInvariants ==
    (call.fn \in {"get_species_pka", "from_kegg"} /\ ~call.result.raises) =>
        WellFormed(call.result.value)

(* C7 *)
\* the atom bag with electrons of a cached Compound with a structure
BagOf(c) ==
    LET described == get_atom_bag_and_charge_from_inchi(c.inchi).value
        atom_bag == described.atom_bag
    IN  [e \in DOMAIN atom_bag \cup {Electron} |->
            IF e = Electron THEN n_protons(atom_bag) - described.charge ELSE atom_bag[e]]

\* C7: get_kegg_ematrix returns one row per requested cid, in order, and one
\* column per element of the sorted union of the elements of the compounds,
\* electrons included and hydrogen left out; the row of a compound without a
\* structure is all NaN, any other row holds the compound's counts, 0 for an
\* element it lacks, and under 'e-' its protons minus its charge.
C7_ElementMatrix ==
    (last.op = "get_kegg_ematrix" /\ ~last.raises) =>
        LET comp(i) == compound_dict[CompoundId(last.cids[i])]
            known == {i \in DOMAIN last.cids : comp(i).inchi # None}
        IN  /\ DOMAIN last.matrix = DOMAIN last.cids
            /\ Range(last.elements) = UNION {DOMAIN BagOf(comp(i)) : i \in known} \ {<<"H">>}
            /\ \A j, k \in DOMAIN last.elements :
                   j < k => StrLess(last.elements[j], last.elements[k])
            /\ \A i \in DOMAIN last.cids :
                   /\ DOMAIN last.matrix[i] = DOMAIN last.elements
                   /\ \A j \in DOMAIN last.elements :
                          last.matrix[i][j] =
                              IF i \notin known THEN NaN
                              ELSE IF last.elements[j] \in DOMAIN BagOf(comp(i))
                                  THEN Number(BagOf(comp(i))[last.elements[j]])
                              ELSE Number(0)

\* a matrix of two rows, one of counts and one of NaN
C7_Witness ==
    /\ last.op = "get_kegg_ematrix"
    /\ ~last.raises
    /\ Len(last.cids) = 2
    /\ Len(last.elements) >= 2
    /\ \E i, k \in DOMAIN last.matrix :
         /\ \A j \in DOMAIN last.elements : last.matrix[i][j] = NaN
         /\ \A j \in DOMAIN last.elements : ~last.matrix[k][j].nan
         /\ last.matrix[k][Len(last.elements)].n > 0

(* C8 *)
\* the InChI that stands for the input when the prediction fails
InputInchi(molstring, moltype) ==
    IF moltype = "inchi" THEN molstring ELSE smiles2inchi(molstring)

PredictionFailed ==
    /\ call.fn = "get_species_pka"
    /\ call.moltype \in {"inchi", "smiles"}
    /\ call.molstring # None
    /\ call.prediction.fails

\* C8 as stated: whenever the prediction fails, get_species_pka still returns a
\* ladder: no pKas, index 0, and the hydrogens and the charge of the input.
C8_AlwaysALadder ==
    PredictionFailed =>
        /\ ~call.result.raises
        /\ call.result.value.pKas = <<>>
        /\ call.result.value.majorMSpH7 = 0
        /\ Len(call.result.value.nHs) = 1
        /\ Len(call.result.value.zs) = 1

\* C8, amended: whenever the prediction fails, its error does not leave
\* get_species_pka: if GetFormulaAndCharge describes the input, the result is the
\* ladder with no pKas, index 0 and the hydrogens and the charge of the input;
\* if GetFormulaAndCharge raises on the input, that error leaves the method.
C8_FallbackLadder ==
    PredictionFailed =>
        LET described == GetFormulaAndCharge(InputInchi(call.molstring, call.moltype))
            atom_bag == ParseFormula(described.formula)
        IN  /\ call.result.raises = described.raises
            /\ ~described.raises =>
                   call.result.value =
                       Ladder(<<>>, 0,
                              <<IF <<"H">> \in DOMAIN atom_bag THEN atom_bag[<<"H">>] ELSE 0>>,
                              <<described.charge>>)

\* the fallback on a structure with hydrogens and a charge
C8_Witness ==
    /\ PredictionFailed
    /\ ~call.result.raises
    /\ call.result.value.nHs = <<1>>
    /\ call.result.value.zs = <<1>>

(* C9 *)
\* C9: a lookup that raises leaves the mapping, the flag and the file as they
\* were, with no entry under the identity, and the next lookup of that identity
\* calls the collaborators again.
C9_FailureNotCached ==
    [][/\ (last'.op = "get_kegg_compound" /\ last'.raises) =>
            /\ compound_dict' = compound_dict
            /\ need_to_update_cache_file' = need_to_update_cache_file
            /\ store' = store
            /\ derivations' = derivations
            /\ CompoundId(last'.cid) \notin DOMAIN compound_dict'
            /\ last'.ret = <<>>
       /\ (/\ last.op = "get_kegg_compound" /\ last.raises
           /\ last'.op = "get_kegg_compound" /\ last'.cid = last.cid) =>
            last'.calls >= 1]_vars

\* a lookup that raised in ChemAxon while another compound was cached
C9_Witness ==
    /\ last.op = "get_kegg_compound"
    /\ last.raises
    /\ last.error = "ChemAxonError"
    /\ DOMAIN compound_dict # {}

(* C10 *)
\* C10: once the cache is loaded, whenever the flag is clear the records of the
\* file are the cached Compounds (no file counting as no record).
C10_CleanMeansPersisted ==
    (phase # "new" /\ ~need_to_update_cache_file) =>
        Records = {to_json_dict(c) : c \in Values(compound_dict)}

\* a derived Compound that dump has written
C10_Witness ==
    /\ phase = "ready"
    /\ ~need_to_update_cache_file
    /\ store \notin Stores
    /\ \E cid \in Cids : derivations[cid] > 0 /\ first_got[cid] # <<>>

=============================================================================
